---- MODULE Spec2Model ----
(***************************************************************************)
(* HTTP authentication-credential extractors of fastapi/security/http.py:  *)
(* HTTPBasic, HTTPBasicClientCredentials, HTTPBearer and HTTPDigest.       *)
(*                                                                         *)
(* A str is a sequence of code points (66 is "B", 58 is ":"), a bytes      *)
(* object a sequence of octets, so that splitting, case folding and base64 *)
(* are computed on the characters as the code computes them.               *)
(***************************************************************************)
EXTENDS Integers, Sequences, FiniteSets, TLC

VARIABLES kind, auto_error, realm, authorization, result

vars == <<kind, auto_error, realm, authorization, result>>

----------------------------------------------------------------------------
(* Bounds of the explored inputs *)

\* longest parameter string enumerated over ParamAlphabet
MaxParamLen == 4

\* longest user and longest password of an encoded "user:pass" pair
MaxCredLen == 2

----------------------------------------------------------------------------
(* Python values *)

\* None, where the code has an Optional[str] or an Optional result
None == <<-1>>

\* truthiness of an Optional[str]: None and "" are falsy
Truthy(s) == s # None /\ s # <<>>

HTTP_401_UNAUTHORIZED == 401

HTTP_403_FORBIDDEN == 403

\* LowerChar without the case folding: the scheme is compared as supplied
LowerChar_no_fold(c) == c

\* str.lower() on one code point: "A".."Z" map to "a".."z"
LowerChar(c) == IF c >= 65 /\ c <= 90 THEN c + 32 ELSE c

\* str.lower()
Lower(s) == [i \in 1..Len(s) |-> LowerChar(s[i])]

\* a character str.split() treats as whitespace
IsSpace(c) == c \in {9, 10, 11, 12, 13, 32}

\* index of the first element of s satisfying nothing but "is whitespace",
\* Len(s) + 1 when there is none
FirstSpace(s) ==
    LET hits == {i \in 1..Len(s) : IsSpace(s[i])}
    IN  IF hits = {} THEN Len(s) + 1
        ELSE CHOOSE i \in hits : \A j \in hits : i <= j

\* index of the first non-whitespace element of s at or after position from,
\* Len(s) + 1 when there is none
FirstNonSpaceFrom(s, from) ==
    LET hits == {i \in from..Len(s) : ~IsSpace(s[i])}
    IN  IF hits = {} THEN Len(s) + 1
        ELSE CHOOSE i \in hits : \A j \in hits : i <= j

\* fastapi.security.utils.get_authorization_scheme_param: the header value is
\* split on its first run of whitespace; None and "" give ("", "")
get_authorization_scheme_param(authorization_header_value) ==
    IF ~Truthy(authorization_header_value)
    THEN [scheme |-> <<>>, param |-> <<>>]
    ELSE LET s == authorization_header_value
             i == FirstSpace(s)
             j == FirstNonSpaceFrom(s, i)
         IN  [scheme |-> SubSeq(s, 1, i - 1),
              param  |-> SubSeq(s, j, Len(s))]

----------------------------------------------------------------------------
(* base64.b64decode(s) with validate=False, on a str *)

BASE64_PAD == 61

\* binascii's table_a2b_base64: the 6-bit value of a character of the
\* base64 alphabet, 64 for every other character
table_a2b_base64(c) ==
    IF c >= 65 /\ c <= 90 THEN c - 65
    ELSE IF c >= 97 /\ c <= 122 THEN c - 71
    ELSE IF c >= 48 /\ c <= 57 THEN c + 4
    ELSE IF c = 43 THEN 62
    ELSE IF c = 47 THEN 63
    ELSE 64

\* One iteration of the loop of binascii.a2b_base64 (strict_mode off).
\* st = [quad_pos, leftchar, pads, out, done]
a2b_step(st, c) ==
    IF st.done THEN st
    ELSE IF c = BASE64_PAD
    THEN IF st.quad_pos >= 2
         THEN IF st.quad_pos + st.pads + 1 >= 4
              THEN [st EXCEPT !.pads = st.pads + 1, !.done = TRUE]
              ELSE [st EXCEPT !.pads = st.pads + 1]
         ELSE st
    ELSE LET this_ch == table_a2b_base64(c)
         IN  IF this_ch >= 64 THEN st
             ELSE CASE st.quad_pos = 0 ->
                         [st EXCEPT !.pads = 0, !.quad_pos = 1,
                                    !.leftchar = this_ch]
                    [] st.quad_pos = 1 ->
                         [st EXCEPT !.pads = 0, !.quad_pos = 2,
                                    !.out = Append(st.out,
                                        st.leftchar * 4 + this_ch \div 16),
                                    !.leftchar = this_ch % 16]
                    [] st.quad_pos = 2 ->
                         [st EXCEPT !.pads = 0, !.quad_pos = 3,
                                    !.out = Append(st.out,
                                        st.leftchar * 16 + this_ch \div 4),
                                    !.leftchar = this_ch % 4]
                    [] st.quad_pos = 3 ->
                         [st EXCEPT !.pads = 0, !.quad_pos = 0,
                                    !.out = Append(st.out,
                                        st.leftchar * 64 + this_ch),
                                    !.leftchar = 0]

RECURSIVE a2b_loop(_, _, _)
a2b_loop(st, s, i) ==
    IF i > Len(s) THEN st ELSE a2b_loop(a2b_step(st, s[i]), s, i + 1)

\* binascii.a2b_base64: the decoded octets, or binascii.Error when the data
\* characters stop in the middle of a quad that no padding closes
a2b_base64(s) ==
    LET st == a2b_loop([quad_pos |-> 0, leftchar |-> 0, pads |-> 0,
                        out |-> <<>>, done |-> FALSE], s, 1)
    IN  IF ~st.done /\ st.quad_pos # 0
        THEN [ok |-> FALSE, data |-> <<>>]
        ELSE [ok |-> TRUE, data |-> st.out]

\* base64.b64decode on a str: a non-ASCII character raises ValueError before
\* any decoding, otherwise the result of a2b_base64
b64decode(s) ==
    IF \E i \in 1..Len(s) : s[i] > 127
    THEN [ok |-> FALSE, data |-> <<>>]
    ELSE a2b_base64(s)

\* decode_ascii accepting every octet, as bytes.decode("latin-1") does
decode_ascii_any_octet(data) == [ok |-> TRUE, text |-> data]

\* bytes.decode("ascii"): UnicodeDecodeError on an octet above 127
decode_ascii(data) ==
    IF \E i \in 1..Len(data) : data[i] > 127
    THEN [ok |-> FALSE, text |-> <<>>]
    ELSE [ok |-> TRUE, text |-> data]

\* partition_colon splitting on the last ":", as str.rpartition(":") does
partition_colon_last(data) ==
    LET hits == {i \in 1..Len(data) : data[i] = 58}
    IN  IF hits = {}
        THEN [first |-> data, separator |-> <<>>, second |-> <<>>]
        ELSE LET i == CHOOSE k \in hits : \A j \in hits : k >= j
             IN  [first |-> SubSeq(data, 1, i - 1),
                  separator |-> <<58>>,
                  second |-> SubSeq(data, i + 1, Len(data))]

\* str.partition(":"): split on the first ":"; separator is "" when the
\* text contains none
partition_colon(data) ==
    LET hits == {i \in 1..Len(data) : data[i] = 58}
    IN  IF hits = {}
        THEN [first |-> data, separator |-> <<>>, second |-> <<>>]
        ELSE LET i == CHOOSE k \in hits : \A j \in hits : k <= j
             IN  [first |-> SubSeq(data, 1, i - 1),
                  separator |-> <<58>>,
                  second |-> SubSeq(data, i + 1, Len(data))]

----------------------------------------------------------------------------
(* Results of an invocation *)

\* no invocation yet
NotInvoked ==
    [outcome |-> "idle", type |-> "", fields |-> <<>>,
     status_code |-> 0, detail |-> "", headers |-> {}]

\* return None
ReturnNone ==
    [outcome |-> "return", type |-> "NoneType", fields |-> <<>>,
     status_code |-> 0, detail |-> "", headers |-> {}]

\* raise HTTPException(status_code=..., detail=..., headers=...); headers is
\* a set of <<name, value>> pairs, empty when the exception has none
HTTPException(status_code, detail, headers) ==
    [outcome |-> "raise", type |-> "HTTPException", fields |-> <<>>,
     status_code |-> status_code, detail |-> detail, headers |-> headers]

\* return HTTPBasicCredentials(username=..., password=...)
HTTPBasicCredentials(username, password) ==
    [outcome |-> "return", type |-> "HTTPBasicCredentials",
     fields |-> <<username, password>>,
     status_code |-> 0, detail |-> "", headers |-> {}]

\* return HTTPClientCredentials(client_id=..., client_secret=...)
HTTPClientCredentials(client_id, client_secret) ==
    [outcome |-> "return", type |-> "HTTPClientCredentials",
     fields |-> <<client_id, client_secret>>,
     status_code |-> 0, detail |-> "", headers |-> {}]

\* return HTTPAuthorizationCredentials(scheme=..., credentials=...)
HTTPAuthorizationCredentials(scheme, credentials) ==
    [outcome |-> "return", type |-> "HTTPAuthorizationCredentials",
     fields |-> <<scheme, credentials>>,
     status_code |-> 0, detail |-> "", headers |-> {}]

----------------------------------------------------------------------------
(* String literals of the code, as code points *)

\* "basic"
str_basic == <<98, 97, 115, 105, 99>>

\* "bearer"
str_bearer == <<98, 101, 97, 114, 101, 114>>

\* "digest"
str_digest == <<100, 105, 103, 101, 115, 116>>

\* "Basic"
str_Basic == <<66, 97, 115, 105, 99>>

\* f'Basic realm="{self.realm}"'
BasicRealm(r) == str_Basic \o <<32, 114, 101, 97, 108, 109, 61, 34>> \o r \o <<34>>

\* unauthorized_headers that never names the realm
unauthorized_headers_no_realm(r) == {<<"WWW-Authenticate", str_Basic>>}

\* the unauthorized_headers of the Basic family
unauthorized_headers(r) ==
    IF Truthy(r)
    THEN {<<"WWW-Authenticate", BasicRealm(r)>>}
    ELSE {<<"WWW-Authenticate", str_Basic>>}

----------------------------------------------------------------------------
(* The extractors *)

\* HTTPBase.get_http_basic_authorization_credentials: the (first, second)
\* pair, None, or a raised HTTPException
get_http_basic_authorization_credentials(self_realm, self_auto_error, header) ==
    LET sp == get_authorization_scheme_param(header)
        invalid_user_credentials_exc ==
            HTTPException(HTTP_401_UNAUTHORIZED,
                          "Invalid authentication credentials",
                          unauthorized_headers(self_realm))
    IN  IF ~Truthy(header) \/ Lower(sp.scheme) # str_basic
        THEN IF self_auto_error
             THEN [raised |-> TRUE,
                   exc |-> HTTPException(HTTP_401_UNAUTHORIZED,
                                         "Not authenticated",
                                         unauthorized_headers(self_realm)),
                   value |-> None]
             ELSE [raised |-> FALSE, exc |-> NotInvoked, value |-> None]
        ELSE LET raw == b64decode(sp.param)
                 txt == decode_ascii(raw.data)
                 parts == partition_colon(txt.text)
             IN  IF ~raw.ok \/ ~txt.ok
                 THEN [raised |-> TRUE, exc |-> invalid_user_credentials_exc,
                       value |-> None]
                 ELSE IF parts.separator = <<>>
                 THEN [raised |-> TRUE, exc |-> invalid_user_credentials_exc,
                       value |-> None]
                 ELSE [raised |-> FALSE, exc |-> NotInvoked,
                       value |-> <<parts.first, parts.second>>]

\* HTTPBasic.__call__
HTTPBasic_call(self_realm, self_auto_error, header) ==
    LET credentials ==
            get_http_basic_authorization_credentials(self_realm,
                                                     self_auto_error, header)
    IN  IF credentials.raised THEN credentials.exc
        ELSE IF credentials.value = None \/ credentials.value = <<>>
        THEN ReturnNone
        ELSE HTTPBasicCredentials(credentials.value[1], credentials.value[2])

\* HTTPBasicClientCredentials.__call__
HTTPBasicClientCredentials_call(self_realm, self_auto_error, header) ==
    LET credentials ==
            get_http_basic_authorization_credentials(self_realm,
                                                     self_auto_error, header)
    IN  IF credentials.raised THEN credentials.exc
        ELSE IF credentials.value = None \/ credentials.value = <<>>
        THEN ReturnNone
        ELSE HTTPClientCredentials(credentials.value[1], credentials.value[2])

\* HTTPBearer.__call__ raising on a scheme mismatch whatever auto_error is,
\* as HTTPDigest.__call__ does
HTTPBearer_call_always_raises(self_auto_error, header) ==
    LET sp == get_authorization_scheme_param(header)
    IN  IF ~(Truthy(header) /\ sp.scheme # <<>> /\ sp.param # <<>>)
        THEN IF self_auto_error
             THEN HTTPException(HTTP_403_FORBIDDEN, "Not authenticated", {})
             ELSE ReturnNone
        ELSE IF Lower(sp.scheme) # str_bearer
        THEN HTTPException(HTTP_403_FORBIDDEN,
                           "Invalid authentication credentials", {})
        ELSE HTTPAuthorizationCredentials(sp.scheme, sp.param)

\* HTTPBearer.__call__ returning the scheme token lower-cased
HTTPBearer_call_normalised(self_auto_error, header) ==
    LET sp == get_authorization_scheme_param(header)
    IN  IF ~(Truthy(header) /\ sp.scheme # <<>> /\ sp.param # <<>>)
        THEN IF self_auto_error
             THEN HTTPException(HTTP_403_FORBIDDEN, "Not authenticated", {})
             ELSE ReturnNone
        ELSE IF Lower(sp.scheme) # str_bearer
        THEN IF self_auto_error
             THEN HTTPException(HTTP_403_FORBIDDEN,
                                "Invalid authentication credentials", {})
             ELSE ReturnNone
        ELSE HTTPAuthorizationCredentials(Lower(sp.scheme), sp.param)

\* HTTPBearer.__call__
HTTPBearer_call(self_auto_error, header) ==
    LET sp == get_authorization_scheme_param(header)
    IN  IF ~(Truthy(header) /\ sp.scheme # <<>> /\ sp.param # <<>>)
        THEN IF self_auto_error
             THEN HTTPException(HTTP_403_FORBIDDEN, "Not authenticated", {})
             ELSE ReturnNone
        ELSE IF Lower(sp.scheme) # str_bearer
        THEN IF self_auto_error
             THEN HTTPException(HTTP_403_FORBIDDEN,
                                "Invalid authentication credentials", {})
             ELSE ReturnNone
        ELSE HTTPAuthorizationCredentials(sp.scheme, sp.param)

\* HTTPDigest.__call__ with the auto_error test of the missing-credentials
\* branch inverted
HTTPDigest_call_inverted(self_auto_error, header) ==
    LET sp == get_authorization_scheme_param(header)
    IN  IF ~(Truthy(header) /\ sp.scheme # <<>> /\ sp.param # <<>>)
        THEN IF ~self_auto_error
             THEN HTTPException(HTTP_403_FORBIDDEN, "Not authenticated", {})
             ELSE ReturnNone
        ELSE IF Lower(sp.scheme) # str_digest
        THEN HTTPException(HTTP_403_FORBIDDEN,
                           "Invalid authentication credentials", {})
        ELSE HTTPAuthorizationCredentials(sp.scheme, sp.param)

\* HTTPDigest.__call__ returning None on a scheme mismatch when auto_error
\* is off, as HTTPBearer.__call__ does
HTTPDigest_call_optional(self_auto_error, header) ==
    LET sp == get_authorization_scheme_param(header)
    IN  IF ~(Truthy(header) /\ sp.scheme # <<>> /\ sp.param # <<>>)
        THEN IF self_auto_error
             THEN HTTPException(HTTP_403_FORBIDDEN, "Not authenticated", {})
             ELSE ReturnNone
        ELSE IF Lower(sp.scheme) # str_digest
        THEN IF self_auto_error
             THEN HTTPException(HTTP_403_FORBIDDEN,
                                "Invalid authentication credentials", {})
             ELSE ReturnNone
        ELSE HTTPAuthorizationCredentials(sp.scheme, sp.param)

\* HTTPDigest.__call__
HTTPDigest_call(self_auto_error, header) ==
    LET sp == get_authorization_scheme_param(header)
    IN  IF ~(Truthy(header) /\ sp.scheme # <<>> /\ sp.param # <<>>)
        THEN IF self_auto_error
             THEN HTTPException(HTTP_403_FORBIDDEN, "Not authenticated", {})
             ELSE ReturnNone
        ELSE IF Lower(sp.scheme) # str_digest
        THEN HTTPException(HTTP_403_FORBIDDEN,
                           "Invalid authentication credentials", {})
        ELSE HTTPAuthorizationCredentials(sp.scheme, sp.param)

----------------------------------------------------------------------------
(* Inputs *)

RECURSIVE StringsUpTo(_, _)
\* every string over alphabet of length at most n
StringsUpTo(alphabet, n) ==
    IF n = 0 THEN {<<>>}
    ELSE LET shorter == StringsUpTo(alphabet, n - 1)
         IN  shorter \cup {Append(s, c) : s \in shorter, c \in alphabet}

\* "O" and "g" of the base64 alphabet ("Og==" is ":", "OO==" is "8", "gg=="
\* is the octet 0x82), the pad "=" and the non-ASCII "e acute"
ParamAlphabet == {79, 103, 61, 233}

\* users are over "a" and "~", passwords over "p" and ":"
UserAlphabet == {97, 126}

PassAlphabet == {112, 58}

Users == StringsUpTo(UserAlphabet, MaxCredLen)

Passwords == StringsUpTo(PassAlphabet, MaxCredLen)

\* the character of the base64 alphabet with 6-bit value v
b64char(v) ==
    IF v <= 25 THEN v + 65
    ELSE IF v <= 51 THEN v + 71
    ELSE IF v <= 61 THEN v - 4
    ELSE IF v = 62 THEN 43
    ELSE 47

RECURSIVE b64encode(_)
\* base64.b64encode, the encoding a client applies to "user:pass"
b64encode(data) ==
    IF Len(data) = 0 THEN <<>>
    ELSE IF Len(data) = 1
    THEN <<b64char(data[1] \div 4), b64char((data[1] % 4) * 16),
           BASE64_PAD, BASE64_PAD>>
    ELSE IF Len(data) = 2
    THEN <<b64char(data[1] \div 4),
           b64char((data[1] % 4) * 16 + data[2] \div 16),
           b64char((data[2] % 16) * 4), BASE64_PAD>>
    ELSE <<b64char(data[1] \div 4),
           b64char((data[1] % 4) * 16 + data[2] \div 16),
           b64char((data[2] % 16) * 4 + data[3] \div 64),
           b64char(data[3] % 64)>>
         \o b64encode(SubSeq(data, 4, Len(data)))

\* the parameter a client sends for (user, pass)
EncodedPair(user, pass) == b64encode(user \o <<58>> \o pass)

\* the scheme tokens tried: "Basic", "bAsIc", "Bearer", "BEARER", "Digest",
\* "digest" and the empty token
SchemeTokens ==
    { str_Basic, <<98, 65, 115, 73, 99>>,
      <<66, 101, 97, 114, 101, 114>>, <<66, 69, 65, 82, 69, 82>>,
      <<68, 105, 103, 101, 115, 116>>, str_digest, <<>> }

\* what stands between the scheme token and the parameter
Separators == { <<>>, <<32>>, <<32, 32>> }

\* "testtoken"
str_testtoken == <<116, 101, 115, 116, 116, 111, 107, 101, 110>>

\* "dGVzdDp0ZXN0", the base64 of "test:test"
str_dGVzdDp0ZXN0 == <<100, 71, 86, 122, 100, 68, 112, 48, 90, 88, 78, 48>>

\* "invalid_base64"
str_invalid_base64 ==
    <<105, 110, 118, 97, 108, 105, 100, 95, 98, 97, 115, 101, 54, 52>>

\* "abc"
str_abc == <<97, 98, 99>>

\* the parameters of the documented scenarios
ScenarioParams == {str_testtoken, str_dGVzdDp0ZXN0, str_invalid_base64, str_abc}

\* parameters with embedded whitespace: "Og ==", "O g=", "abc abc"
SpacedParams ==
    { <<79, 103, 32, 61, 61>>, <<79, 32, 103, 61>>, str_abc \o <<32>> \o str_abc }

Params ==
    StringsUpTo(ParamAlphabet, MaxParamLen)
        \cup {EncodedPair(u, p) : u \in Users, p \in Passwords}
        \cup ScenarioParams
        \cup SpacedParams

\* the values request.headers.get("Authorization") can have
Headers ==
    {None} \cup {t \o sep \o p : t \in SchemeTokens, sep \in Separators, p \in Params}

\* realm=None, realm="" and realm="r"
Realms == {None, <<>>, <<114>>}

BasicFamily == {"HTTPBasic", "HTTPBasicClientCredentials"}

Kinds == BasicFamily \cup {"HTTPBearer", "HTTPDigest"}

----------------------------------------------------------------------------
(* The state machine: an extractor is constructed once and then invoked on *)
(* one request after another; the result of an invocation is handed to the *)
(* caller and discarded before the next request.                           *)

\* __init__ of the four classes; HTTPBearer and HTTPDigest take no realm
Init ==
    /\ kind \in Kinds
    /\ auto_error \in BOOLEAN
    /\ realm \in (IF kind \in BasicFamily THEN Realms ELSE {None})
    /\ authorization = None
    /\ result = NotInvoked

CallHTTPBasic ==
    /\ kind = "HTTPBasic"
    /\ result = NotInvoked
    /\ \E h \in Headers :
        /\ authorization' = h
        /\ result' = HTTPBasic_call(realm, auto_error, h)
    /\ UNCHANGED <<kind, auto_error, realm>>

CallHTTPBasicClientCredentials ==
    /\ kind = "HTTPBasicClientCredentials"
    /\ result = NotInvoked
    /\ \E h \in Headers :
        /\ authorization' = h
        /\ result' = HTTPBasicClientCredentials_call(realm, auto_error, h)
    /\ UNCHANGED <<kind, auto_error, realm>>

CallHTTPBearer ==
    /\ kind = "HTTPBearer"
    /\ result = NotInvoked
    /\ \E h \in Headers :
        /\ authorization' = h
        /\ result' = HTTPBearer_call(auto_error, h)
    /\ UNCHANGED <<kind, auto_error, realm>>

CallHTTPDigest ==
    /\ kind = "HTTPDigest"
    /\ result = NotInvoked
    /\ \E h \in Headers :
        /\ authorization' = h
        /\ result' = HTTPDigest_call(auto_error, h)
    /\ UNCHANGED <<kind, auto_error, realm>>

\* the caller consumed the credential or the failure was surfaced
Discard ==
    /\ result # NotInvoked
    /\ authorization' = None
    /\ result' = NotInvoked
    /\ UNCHANGED <<kind, auto_error, realm>>

Next ==
    \/ CallHTTPBasic
    \/ CallHTTPBasicClientCredentials
    \/ CallHTTPBearer
    \/ CallHTTPDigest
    \/ Discard

Spec == Init /\ [][Next]_vars

TypeOK ==
    /\ kind \in Kinds
    /\ auto_error \in BOOLEAN
    /\ realm \in Realms
    /\ result.outcome \in {"idle", "return", "raise"}

----------------------------------------------------------------------------
(* Vocabulary of the properties *)

\* an invocation has produced its result
Invoked == result.outcome # "idle"

\* the (scheme, param) split of the current header
Split == get_authorization_scheme_param(authorization)

\* the scheme the extractor expects, in lower case
ExpectedScheme ==
    CASE kind \in BasicFamily -> str_basic
      [] kind = "HTTPBearer" -> str_bearer
      [] kind = "HTTPDigest" -> str_digest

\* the header holds a scheme token and it is not the extractor's scheme
SchemeMismatch == Truthy(authorization) /\ Lower(Split.scheme) # ExpectedScheme

\* 'Basic' without a realm, 'Basic realm="<realm>"' with one
ExpectedChallenge ==
    IF realm = None \/ realm = <<>>
    THEN <<66, 97, 115, 105, 99>>
    ELSE <<66, 97, 115, 105, 99, 32, 114, 101, 97, 108, 109, 61, 34>>
             \o realm \o <<34>>

\* the three ways a Basic parameter can be malformed, told from the result
\* raw of base64-decoding it
Base64Fails(raw) == ~raw.ok

NotText(raw) == raw.ok /\ \E i \in 1..Len(raw.data) : raw.data[i] > 127

NoColon(raw) ==
    /\ raw.ok
    /\ \A i \in 1..Len(raw.data) : raw.data[i] <= 127 /\ raw.data[i] # 58

Malformed(p) ==
    LET raw == b64decode(p)
    IN  Base64Fails(raw) \/ NotText(raw) \/ NoColon(raw)

\* the credential the extractor of this kind builds from a pair
BasicFamilyCredential(first, second) ==
    IF kind = "HTTPBasic"
    THEN HTTPBasicCredentials(first, second)
    ELSE HTTPClientCredentials(first, second)

\* "Basic " followed by p
BasicHeader(p) == <<66, 97, 115, 105, 99, 32>> \o p

\* the header of every enumerated (user, password), with the pair
EncodedPairHeaders ==
    {<<BasicHeader(EncodedPair(u, p)), u, p>> : u \in Users, p \in Passwords}

\* "Digest abc"
str_Digest_abc == <<68, 105, 103, 101, 115, 116, 32, 97, 98, 99>>

----------------------------------------------------------------------------
(* Properties *)

\* C1 (as stated): every extractor with auto_error on, invoked on a request
\* without an Authorization header, fails with status 403 and detail
\* "Not authenticated".
C1_AllForbiddenWhenMissing ==
    (Invoked /\ auto_error /\ authorization = None)
        => /\ result.outcome = "raise"
           /\ result.status_code = 403
           /\ result.detail = "Not authenticated"

\* C1 (amended): with auto_error on and no Authorization header, HTTPBearer
\* and HTTPDigest fail with 403 "Not authenticated" and no headers, while
\* HTTPBasic and HTTPBasicClientCredentials fail with 401 "Not authenticated"
\* and the Basic challenge in WWW-Authenticate.
C1_MissingHeaderFailure ==
    (Invoked /\ auto_error /\ authorization = None)
        => /\ result.outcome = "raise"
           /\ result.detail = "Not authenticated"
           /\ kind \in BasicFamily =>
                /\ result.status_code = 401
                /\ result.headers = {<<"WWW-Authenticate", ExpectedChallenge>>}
           /\ kind \notin BasicFamily =>
                /\ result.status_code = 403
                /\ result.headers = {}

C1_Witness ==
    /\ Invoked /\ auto_error /\ authorization = None
    /\ kind = "HTTPBasicClientCredentials"
    /\ realm = <<114>>
    /\ result.status_code = 401

\* C2: with auto_error off, an absent header yields None from every
\* extractor, and a header whose scheme is not the extractor's yields None
\* from HTTPBasic, HTTPBasicClientCredentials and HTTPBearer.
C2_ExpectedAbsenceIsNone ==
    (/\ Invoked
     /\ ~auto_error
     /\ \/ authorization = None
        \/ kind # "HTTPDigest" /\ SchemeMismatch)
        => result = ReturnNone

C2_Witness ==
    /\ Invoked /\ ~auto_error
    /\ kind = "HTTPBearer"
    /\ SchemeMismatch
    /\ Split.scheme # <<>> /\ Split.param # <<>>
    /\ result = ReturnNone

\* C3: on a Basic-family extractor and a header whose scheme is "basic" in
\* any letter case, a parameter that fails base64 decoding, decodes to
\* non-text octets or decodes to text without ":" gives, for every
\* auto_error, 401 "Invalid authentication credentials" with the Basic
\* challenge.
C3_MalformedIsInvalidCredentials ==
    (/\ Invoked
     /\ kind \in BasicFamily
     /\ Truthy(authorization)
     /\ Lower(Split.scheme) = str_basic
     /\ Malformed(Split.param))
        => result = [outcome |-> "raise", type |-> "HTTPException",
                     fields |-> <<>>, status_code |-> 401,
                     detail |-> "Invalid authentication credentials",
                     headers |-> {<<"WWW-Authenticate", ExpectedChallenge>>}]

C3_Witness ==
    /\ Invoked /\ ~auto_error
    /\ kind = "HTTPBasic"
    /\ realm = <<114>>
    /\ Lower(Split.scheme) = str_basic
    /\ NotText(b64decode(Split.param))
    /\ \E i \in 1..Len(b64decode(Split.param).data) :
          b64decode(Split.param).data[i] = 58
    /\ result.status_code = 401
    /\ result.detail = "Invalid authentication credentials"

\* C4: with auto_error off, no invocation of any extractor on any header
\* signals a failure.
C4_NoFailureWhenAutoErrorOff ==
    (Invoked /\ ~auto_error) => result.outcome # "raise"

\* C5: a header that is present but splits into an empty scheme or an empty
\* parameter gets the missing-credentials outcome from every extractor:
\* detail "Not authenticated" with auto_error on, None with auto_error off.
C5_EmptyHalfIsMissingCredentials ==
    (/\ Invoked
     /\ authorization # None
     /\ Split.scheme = <<>> \/ Split.param = <<>>)
        => IF auto_error
           THEN result.outcome = "raise" /\ result.detail = "Not authenticated"
           ELSE result = ReturnNone

\* C6: a signaled failure has status 401 exactly when the extractor is of
\* the Basic family, and then its only header is WWW-Authenticate with the
\* Basic challenge; otherwise it has status 403 and no headers.
C6_StatusAndChallenge ==
    (Invoked /\ result.outcome = "raise")
        => /\ result.status_code = 401 <=> kind \in BasicFamily
           /\ kind \in BasicFamily =>
                result.headers = {<<"WWW-Authenticate", ExpectedChallenge>>}
           /\ kind \notin BasicFamily =>
                result.status_code = 403 /\ result.headers = {}

C6_Witness ==
    /\ Invoked /\ result.outcome = "raise"
    /\ kind = "HTTPBasic"
    /\ realm = <<114>>
    /\ result.headers =
         {<<"WWW-Authenticate",
            <<66, 97, 115, 105, 99, 32, 114, 101, 97, 108, 109, 61, 34, 114, 34>>>>}

\* C7: on a header with non-empty scheme and parameter whose scheme is not
\* the extractor's, HTTPBearer fails with 403 "Invalid authentication
\* credentials" when auto_error is on and returns None when it is off;
\* HTTPDigest fails with 403 "Invalid authentication credentials" either way.
C7_WrongSchemeOutcome ==
    (/\ Invoked
     /\ kind \in {"HTTPBearer", "HTTPDigest"}
     /\ Split.scheme # <<>> /\ Split.param # <<>>
     /\ SchemeMismatch)
        => IF kind = "HTTPBearer" /\ ~auto_error
           THEN result = ReturnNone
           ELSE /\ result.outcome = "raise"
                /\ result.status_code = 403
                /\ result.detail = "Invalid authentication credentials"

C7_Witness ==
    /\ Invoked /\ ~auto_error
    /\ kind = "HTTPDigest"
    /\ Split.scheme # <<>> /\ Split.param # <<>>
    /\ SchemeMismatch
    /\ result.outcome = "raise"

\* C8: HTTPBearer and HTTPDigest, on a header whose scheme token is the
\* expected scheme in any letter case and whose parameter is not empty,
\* return a credential holding the scheme token as supplied and the
\* parameter as split, for either auto_error.
C8_MatchingSchemeVerbatim ==
    (/\ Invoked
     /\ kind \in {"HTTPBearer", "HTTPDigest"}
     /\ Truthy(authorization)
     /\ Split.param # <<>>
     /\ Lower(Split.scheme) = ExpectedScheme)
        => /\ result.outcome = "return"
           /\ result.type = "HTTPAuthorizationCredentials"
           /\ result.fields = <<Split.scheme, Split.param>>

C8_Witness ==
    /\ Invoked
    /\ kind = "HTTPBearer"
    /\ authorization = <<66, 69, 65, 82, 69, 82, 32>> \o str_testtoken
    /\ result.fields = <<<<66, 69, 65, 82, 69, 82>>, str_testtoken>>

\* C9: for every user without ":" and every password, "Basic " followed by
\* the base64 of user ":" password gives a Basic-family extractor the
\* credential (user, password), empty parts included.
C9_RoundTrip ==
    (/\ Invoked
     /\ kind \in BasicFamily
     /\ Len(authorization) >= 6
     /\ SubSeq(authorization, 1, 6) = BasicHeader(<<>>))
        => \A t \in EncodedPairHeaders :
              authorization = t[1] => result = BasicFamilyCredential(t[2], t[3])

C9_Witness ==
    /\ Invoked
    /\ kind = "HTTPBasic"
    /\ authorization = BasicHeader(EncodedPair(<<>>, <<58, 112>>))
    /\ result.type = "HTTPBasicCredentials"
    /\ result.fields = <<<<>>, <<58, 112>>>>

\* C10 (as stated): the Digest extractor on the header "Digest abc" fails
\* with 403 "Invalid authentication credentials" for either auto_error.
C10_DigestAbcForbidden ==
    (Invoked /\ kind = "HTTPDigest" /\ authorization = str_Digest_abc)
        => /\ result.outcome = "raise"
           /\ result.status_code = 403
           /\ result.detail = "Invalid authentication credentials"

\* C10 (amended): the Digest extractor on the header "Digest abc" returns
\* the credential {scheme: "Digest", credentials: "abc"} for either
\* auto_error.
C10_DigestAbcAccepted ==
    (Invoked /\ kind = "HTTPDigest" /\ authorization = str_Digest_abc)
        => /\ result.outcome = "return"
           /\ result.type = "HTTPAuthorizationCredentials"
           /\ result.fields = <<<<68, 105, 103, 101, 115, 116>>, str_abc>>

C10_Witness ==
    /\ Invoked /\ ~auto_error
    /\ kind = "HTTPDigest"
    /\ authorization = str_Digest_abc
    /\ result.outcome = "return"

====
